---------------------------- MODULE Spec2Model ----------------------------
(***************************************************************************)
(* WinApiDatabase (src/Database.py): a pickle-backed key-value store       *)
(* guarded by Win32 mutexes and a counting semaphore.                      *)
(*                                                                         *)
(* Actors are threads.  In mode "threads" (src/ThreadTest.py) all actors   *)
(* call into ONE SynchronizedDataBase instance built before they start; in *)
(* mode "processes" (src/ProcessTest.py) every actor is a process that     *)
(* builds its OWN instance on the same file, and only the named gates      *)
(* (Global\WriteLock, Global\DataMutex, Global\ReadSemaphore) and the file *)
(* are shared: self.data and self.file_mutex are private to the process.   *)
(* Every actor makes one call of its choice and then stops ("done"), or    *)
(* stops where its call raised ("failed"), still holding what it held.     *)
(*                                                                         *)
(* Win32 facts used (the library, not this repository):                    *)
(*  - WaitForSingleObject(INFINITE) blocks until the object is signalled;  *)
(*  - CreateFile with dwShareMode = 0 fails with a sharing violation       *)
(*    (pywintypes.error) while any other handle to the file is open;       *)
(*  - CREATE_ALWAYS truncates the file to zero bytes when it opens it;     *)
(*  - ReleaseSemaphore fails when the count would exceed the maximum.      *)
(***************************************************************************)
EXTENDS Integers, FiniteSets, TLC

\* ------------------------------------------------------------------ bounds
NumActors == 3      \* concurrent threads / processes
NumKeys == 1        \* keys 1..NumKeys
read_limit == 2     \* self.read_limit (10 in the source), scaled down

Actors == 1..NumActors
Keys == 1..NumKeys
Values == Actors            \* writers store their own id (the tests' writer)
None == 0                   \* Python's None
Free == 0                   \* a mutex nobody owns / no open file handle

VARIABLES
    mode,        \* "threads" | "processes"
    pc,          \* pc[a]: the statement actor a is about to execute
    op,          \* op[a]: the call a is inside ("none" when idle)
    key,         \* key[a]: the key argument of the call
    res,         \* res[a]: the value value_get / delete returns
    ok,          \* ok[a]: the bool value_set returns
    held,        \* held[a]: read-semaphore units a has acquired and not released
    data,        \* data[i]: self.data of instance i
    file_mutex,  \* file_mutex[i]: owner of instance i's self.file_mutex
    write_lock,  \* owner of self.write_lock
    mutex,       \* owner of self.mutex
    sem,         \* count of self.read_semaphore
    file,        \* the snapshot file
    handle,      \* the actor holding an open (unshared) handle to the file
    err,         \* err[a]: why a's call raised ("none" when it did not)
    errBy,       \* errBy[a]: the call that held the file when a's CreateFile was refused
    \* history variables (observations, never read by the program)
    firstSet,    \* firstSet[k]: value given by the first set_value executed on k
    wasFirst,    \* wasFirst[a]: a's current set was the first one executed on its key
    committed,   \* committed[k]: value v of a set(k, v) that returned True
    expect,      \* expect[a]: committed[key] when a's get was invoked
    lastSaved,   \* the mapping written by the most recently completed save
    snap,        \* snap[a]: lastSaved when a acquired its read slot
    written,     \* written[k]: values some set_value stored under k
    gone,        \* gone[k]: a delete(k) returned with no value_set(k) in progress, and no set_value ran on k since
    expectAbsent, \* expectAbsent[a]: gone[key] when a's get was invoked
    fresh        \* fresh[i]: "empty" once instance i is built on an absent file,
                 \* "first" once the first set_value has run on that store,
                 \* "no" before it is built and after a load or another mutation

vars == <<mode, pc, op, key, res, ok, held, data, file_mutex, write_lock, mutex,
          sem, file, handle, err, errBy, firstSet, wasFirst, committed, expect,
          lastSaved, snap, written, gone, expectAbsent, fresh>>

obs == <<firstSet, wasFirst, committed, expect, lastSaved, snap, written,
         gone, expectAbsent>>

hist == <<obs, fresh>>

\* --------------------------------------------------------------- the store
EmptyDict == [k \in {} |-> None]

\* the instance actor a calls into
Inst(a) == IF mode = "threads" THEN 1 ELSE a

\* (mutant) set_value stores nothing
set_value_nothing(d, k, v) == d

\* DataBase.set_value: the bool it returns, and the dict it leaves
set_value_result(d, k) == k \notin DOMAIN d
set_value(d, k, v) == IF k \in DOMAIN d THEN d ELSE (k :> v) @@ d

\* DataBase.get_value
get_value(d, k) == IF k \in DOMAIN d THEN d[k] ELSE None

\* DataBase.delete: the value it returns, and the dict it leaves
delete_result(d, k) == IF k \in DOMAIN d THEN d[k] ELSE None
delete(d, k) == [x \in DOMAIN d \ {k} |-> d[x]]

\* pickle.dumps / pickle.loads: a dict is written as its set of items
dumps(d) == {<<k, d[k]>> : k \in DOMAIN d}
loads(b) == [k \in {p[1] : p \in b} |-> CHOOSE v \in Values : <<k, v>> \in b]

NoFile == [exists |-> FALSE, pickled |-> FALSE, items |-> {}]
Truncated == [exists |-> TRUE, pickled |-> FALSE, items |-> {}]
Pickled(d) == [exists |-> TRUE, pickled |-> TRUE, items |-> dumps(d)]

\* what the file decodes to (an absent file counts as the empty mapping)
Decoded == IF file.pickled THEN loads(file.items) ELSE EmptyDict

\* ------------------------------------------------------------- primitives
\* WaitForSingleObject on a mutex / ReleaseMutex
CanLock(m) == m = Free
\* WaitForSingleObject on the semaphore
CanTake(s) == s > 0
\* ReleaseSemaphore(sem, 1): refused above the maximum
CanRelease(s) == s < read_limit

TypeOK ==
    /\ mode \in {"threads", "processes"}
    /\ sem \in 0..read_limit
    /\ write_lock \in Actors \cup {Free}
    /\ mutex \in Actors \cup {Free}
    /\ handle \in Actors \cup {Free}
    /\ \A a \in Actors : held[a] \in 0..read_limit

Init ==
    /\ mode \in {"threads", "processes"}
    \* threads: the one instance is already built (ThreadTest.py:40);
    \* processes: every process starts by building its own (ProcessTest.py:11,26)
    /\ pc = [a \in Actors |-> IF mode = "threads" THEN "idle" ELSE "load_open"]
    /\ op = [a \in Actors |-> IF mode = "threads" THEN "none" ELSE "new"]
    /\ key = [a \in Actors |-> 1]
    /\ res = [a \in Actors |-> None]
    /\ ok = [a \in Actors |-> FALSE]
    /\ held = [a \in Actors |-> 0]
    /\ data = [i \in Actors |-> EmptyDict]
    /\ file_mutex = [i \in Actors |-> Free]
    /\ write_lock = Free
    /\ mutex = Free
    /\ sem = read_limit
    /\ file = NoFile
    /\ handle = Free
    /\ err = [a \in Actors |-> "none"]
    /\ errBy = [a \in Actors |-> "none"]
    /\ firstSet = [k \in Keys |-> None]
    /\ wasFirst = [a \in Actors |-> FALSE]
    /\ committed = [k \in Keys |-> None]
    /\ expect = [a \in Actors |-> None]
    /\ lastSaved = EmptyDict
    /\ snap = [a \in Actors |-> EmptyDict]
    /\ written = [k \in Keys |-> {}]
    /\ gone = [k \in Keys |-> FALSE]
    /\ expectAbsent = [a \in Actors |-> FALSE]
    /\ fresh = [i \in Actors |-> IF mode = "threads" /\ i = 1 THEN "empty" ELSE "no"]

\* the call raises: the actor leaves it holding whatever it held
Raise(a, why, by) ==
    /\ pc' = [pc EXCEPT ![a] = "failed"]
    /\ err' = [err EXCEPT ![a] = why]
    /\ errBy' = [errBy EXCEPT ![a] = by]

\* ------------------------------------------------- SerializedDataBase.load
\* where load returns to: __init__ (line 52) or value_get (line 137)
AfterLoad(a) == IF op[a] = "new" THEN "idle" ELSE "get_lookup"
OpAfterLoad(a) == IF op[a] = "new" THEN "none" ELSE op[a]

\* line 73: WaitForSingleObject(self.file_mutex); line 75: os.path.exists;
\* lines 81-84: an absent file gives the empty store and load returns
LoadOpen(a) ==
    /\ pc[a] = "load_open"
    /\ CanLock(file_mutex[Inst(a)])
    /\ IF file.exists
       THEN /\ file_mutex' = [file_mutex EXCEPT ![Inst(a)] = a]
            /\ pc' = [pc EXCEPT ![a] = "load_create"]
            /\ UNCHANGED <<data, op, fresh>>
       ELSE /\ data' = [data EXCEPT ![Inst(a)] = EmptyDict]
            /\ pc' = [pc EXCEPT ![a] = AfterLoad(a)]
            /\ op' = [op EXCEPT ![a] = OpAfterLoad(a)]
            /\ fresh' = [fresh EXCEPT ![Inst(a)] = IF op[a] = "new" THEN "empty" ELSE @]
            /\ UNCHANGED file_mutex
    /\ UNCHANGED <<mode, key, res, ok, held, write_lock, mutex, sem,
                   file, handle, err, errBy, obs>>

\* lines 76-77: CreateFile(GENERIC_READ, share 0, OPEN_EXISTING); on a sharing
\* violation the finally of line 84 releases file_mutex and the error propagates
LoadCreate(a) ==
    /\ pc[a] = "load_create"
    /\ IF handle = Free
       THEN /\ handle' = a
            /\ pc' = [pc EXCEPT ![a] = "load_read"]
            /\ UNCHANGED <<file_mutex, err, errBy>>
       ELSE /\ file_mutex' = [file_mutex EXCEPT ![Inst(a)] = Free]
            /\ Raise(a, "sharing", op[handle])
            /\ UNCHANGED handle
    /\ UNCHANGED <<mode, op, key, res, ok, held, data, write_lock, mutex, sem,
                   file, hist>>

\* (mutant) load keeps the dict already in memory
LoadedDataStale(d, f) == d

\* what load leaves in self.data (line 79)
LoadedData(d, f) == loads(f.items)

\* (mutant) load answers bytes that do not unpickle with the empty store
LoadReadFallback(a) ==
    /\ pc[a] = "load_read"
    /\ file_mutex' = [file_mutex EXCEPT ![Inst(a)] = Free]
    /\ data' = [data EXCEPT ![Inst(a)] =
                    IF file.pickled THEN LoadedData(data[Inst(a)], file) ELSE EmptyDict]
    /\ handle' = Free
    /\ pc' = [pc EXCEPT ![a] = AfterLoad(a)]
    /\ op' = [op EXCEPT ![a] = OpAfterLoad(a)]
    /\ fresh' = [fresh EXCEPT ![Inst(a)] = "no"]
    /\ UNCHANGED <<mode, key, res, ok, held, write_lock, mutex, sem, file,
                   err, errBy, obs>>

\* lines 78-80, 84: ReadFile, pickle.loads into self.data, CloseHandle, release.
\* Zero bytes do not unpickle (EOFError): line 80 is skipped, and the handle
\* is closed only when the handle object is collected, which may be before
\* any other actor opens the file or after all of them have tried.
LoadRead(a) ==
    /\ pc[a] = "load_read"
    /\ file_mutex' = [file_mutex EXCEPT ![Inst(a)] = Free]
    /\ IF file.pickled
       THEN /\ data' = [data EXCEPT ![Inst(a)] = LoadedData(data[Inst(a)], file)]
            /\ handle' = Free
            /\ pc' = [pc EXCEPT ![a] = AfterLoad(a)]
            /\ op' = [op EXCEPT ![a] = OpAfterLoad(a)]
            /\ fresh' = [fresh EXCEPT ![Inst(a)] = "no"]
            /\ UNCHANGED <<err, errBy>>
       ELSE /\ Raise(a, "unpickle", "none")
            /\ handle' \in {handle, Free}
            /\ UNCHANGED <<data, op, fresh>>
    /\ UNCHANGED <<mode, key, res, ok, held, write_lock, mutex, sem, file, obs>>

\* ------------------------------------------------- SerializedDataBase.save
\* line 59: WaitForSingleObject(self.file_mutex); lines 61-62:
\* CreateFile(GENERIC_WRITE, share 0, CREATE_ALWAYS) truncates the file.
\* On a sharing violation handle is still None: CloseHandle(None) of line 66
\* raises in the finally, so line 67 never releases file_mutex.
SaveOpen(a) ==
    /\ pc[a] = "save_open"
    /\ CanLock(file_mutex[Inst(a)])
    /\ file_mutex' = [file_mutex EXCEPT ![Inst(a)] = a]
    /\ IF handle = Free
       THEN /\ handle' = a
            /\ file' = Truncated
            /\ pc' = [pc EXCEPT ![a] = "save_write"]
            /\ UNCHANGED <<err, errBy>>
       ELSE /\ Raise(a, "sharing", op[handle])
            /\ UNCHANGED <<handle, file>>
    /\ UNCHANGED <<mode, op, key, res, ok, held, data, write_lock,
                   mutex, sem, hist>>

\* lines 63-64: pickle.dumps(self.data), WriteFile; lines 66-67: CloseHandle,
\* ReleaseMutex(self.file_mutex)
SaveWrite(a) ==
    /\ pc[a] = "save_write"
    /\ file' = Pickled(data[Inst(a)])
    /\ handle' = Free
    /\ file_mutex' = [file_mutex EXCEPT ![Inst(a)] = Free]
    /\ pc' = [pc EXCEPT ![a] = "wr_release"]
    /\ lastSaved' = loads(dumps(data[Inst(a)]))
    /\ UNCHANGED <<mode, op, key, res, ok, held, data, write_lock, mutex, sem,
                   err, errBy, firstSet, wasFirst, committed, expect,
                   snap, written, gone, expectAbsent, fresh>>

\* -------------------------------------------- SynchronizedDataBase.value_set
\* a caller invokes value_set(k, own id)
CallSet(a, k) ==
    /\ pc[a] = "idle"
    /\ pc' = [pc EXCEPT ![a] = "wr_lock"]
    /\ op' = [op EXCEPT ![a] = "set"]
    /\ key' = [key EXCEPT ![a] = k]
    /\ UNCHANGED <<mode, res, ok, held, data, file_mutex, write_lock, mutex, sem,
                   file, handle, err, errBy, hist>>

\* (mutant) value_set goes on without waiting for write_lock
AcquireWriteLockNoWait(a) ==
    /\ pc[a] = "wr_lock"
    /\ write_lock' = a
    /\ pc' = [pc EXCEPT ![a] = "wr_mutex"]
    /\ UNCHANGED <<mode, op, key, res, ok, held, data, file_mutex, mutex, sem,
                   file, handle, err, errBy, hist>>

\* line 111: WaitForSingleObject(self.write_lock)
AcquireWriteLock(a) ==
    /\ pc[a] = "wr_lock"
    /\ CanLock(write_lock)
    /\ write_lock' = a
    /\ pc' = [pc EXCEPT ![a] = "wr_mutex"]
    /\ UNCHANGED <<mode, op, key, res, ok, held, data, file_mutex, mutex, sem,
                   file, handle, err, errBy, hist>>

\* line 113: WaitForSingleObject(self.mutex)
AcquireMutex(a) ==
    /\ pc[a] = "wr_mutex"
    /\ CanLock(mutex)
    /\ mutex' = a
    /\ pc' = [pc EXCEPT ![a] = "wr_drain"]
    /\ UNCHANGED <<mode, op, key, res, ok, held, data, file_mutex, write_lock,
                   sem, file, handle, err, errBy, hist>>

\* (mutant) the drain loop stops one unit short
DrainCountShort == read_limit - 1

\* the number of units the writer takes before it mutates (line 114)
DrainCount == read_limit

\* lines 114-115: one WaitForSingleObject(self.read_semaphore) of the drain loop
Drain(a) ==
    /\ pc[a] = "wr_drain"
    /\ held[a] < DrainCount
    /\ CanTake(sem)
    /\ sem' = sem - 1
    /\ held' = [held EXCEPT ![a] = @ + 1]
    /\ pc' = [pc EXCEPT ![a] = IF held[a] + 1 = DrainCount THEN "wr_body" ELSE "wr_drain"]
    /\ UNCHANGED <<mode, op, key, res, ok, data, file_mutex, write_lock, mutex,
                   file, handle, err, errBy, hist>>

\* line 118: result = super().set_value(key, value); line 119 enters save
SetMutate(a) ==
    /\ pc[a] = "wr_body"
    /\ op[a] = "set"
    /\ LET d == data[Inst(a)]
           k == key[a]
           first == firstSet[k] = None
       IN /\ ok' = [ok EXCEPT ![a] = set_value_result(d, k)]
          /\ data' = [data EXCEPT ![Inst(a)] = set_value(d, k, a)]
          /\ firstSet' = [firstSet EXCEPT ![k] = IF first THEN a ELSE @]
          /\ wasFirst' = [wasFirst EXCEPT ![a] = first]
          /\ written' = [written EXCEPT ![k] =
                            IF set_value_result(d, k) THEN @ \cup {a} ELSE @]
          /\ gone' = [gone EXCEPT ![k] = FALSE]
    /\ fresh' = [fresh EXCEPT ![Inst(a)] = IF @ = "empty" THEN "first" ELSE "no"]
    /\ pc' = [pc EXCEPT ![a] = "save_open"]
    /\ UNCHANGED <<mode, op, key, res, held, file_mutex, write_lock, mutex, sem,
                   file, handle, err, errBy, committed, expect, lastSaved, snap,
                   expectAbsent>>

\* (mutant) the release loop gives back one unit only
ReleaseSlotsShort(a) ==
    /\ pc[a] = "wr_release"
    /\ CanRelease(sem)
    /\ sem' = sem + 1
    /\ held' = [held EXCEPT ![a] = @ - 1]
    /\ pc' = [pc EXCEPT ![a] = "wr_unmutex"]
    /\ UNCHANGED <<mode, op, key, res, ok, data, file_mutex, write_lock, mutex,
                   file, handle, err, errBy, hist>>

\* lines 122-123: one ReleaseSemaphore(self.read_semaphore, 1) of the release loop
ReleaseSlots(a) ==
    /\ pc[a] = "wr_release"
    /\ IF CanRelease(sem)
       THEN /\ sem' = sem + 1
            /\ held' = [held EXCEPT ![a] = @ - 1]
            /\ pc' = [pc EXCEPT ![a] = IF held[a] = 1 THEN "wr_unmutex" ELSE "wr_release"]
            /\ UNCHANGED <<err, errBy>>
       ELSE /\ Raise(a, "too_many_posts", "none")
            /\ UNCHANGED <<sem, held>>
    /\ UNCHANGED <<mode, op, key, res, ok, data, file_mutex, write_lock, mutex,
                   file, handle, hist>>

\* (mutant) value_set goes on to line 125 without releasing mutex
ReleaseMutexSkipped(a) ==
    /\ pc[a] = "wr_unmutex"
    /\ pc' = [pc EXCEPT ![a] = "wr_unlock"]
    /\ UNCHANGED <<mode, op, key, res, ok, held, data, file_mutex, write_lock,
                   mutex, sem, file, handle, err, errBy, hist>>

\* line 124: ReleaseMutex(self.mutex)
ReleaseMutex(a) ==
    /\ pc[a] = "wr_unmutex"
    /\ mutex' = Free
    /\ pc' = [pc EXCEPT ![a] = "wr_unlock"]
    /\ UNCHANGED <<mode, op, key, res, ok, held, data, file_mutex, write_lock,
                   sem, file, handle, err, errBy, hist>>

\* lines 125-126: ReleaseMutex(self.write_lock); return result
ReleaseWriteLock(a) ==
    /\ pc[a] = "wr_unlock"
    /\ write_lock' = Free
    /\ pc' = [pc EXCEPT ![a] = "done"]
    /\ committed' = [committed EXCEPT ![key[a]] = IF ok[a] THEN a ELSE @]
    /\ UNCHANGED <<mode, op, key, res, ok, held, data, file_mutex, mutex, sem,
                   file, handle, err, errBy, firstSet, wasFirst, expect,
                   lastSaved, snap, written, gone, expectAbsent, fresh>>

\* -------------------------------------------- SynchronizedDataBase.value_get
\* a caller invokes value_get(k)
CallGet(a, k) ==
    /\ pc[a] = "idle"
    /\ pc' = [pc EXCEPT ![a] = "get_sem"]
    /\ op' = [op EXCEPT ![a] = "get"]
    /\ key' = [key EXCEPT ![a] = k]
    /\ expect' = [expect EXCEPT ![a] = committed[k]]
    /\ expectAbsent' = [expectAbsent EXCEPT ![a] = gone[k]]
    /\ UNCHANGED <<mode, res, ok, held, data, file_mutex, write_lock, mutex, sem,
                   file, handle, err, errBy, firstSet, wasFirst, committed,
                   lastSaved, snap, written, gone, fresh>>

\* (mutant) value_get does not wait for a free unit
ReaderEntersAnyway == TRUE

\* (mutant) value_get also waits while a writer holds write_lock
ReaderYieldsToWriter == CanTake(sem) /\ write_lock = Free

\* the reader may enter (line 133: WaitForSingleObject(self.read_semaphore))
ReaderCanEnter == CanTake(sem)

\* line 133 taken; line 136 enters load
AcquireReadSlot(a) ==
    /\ pc[a] = "get_sem"
    /\ ReaderCanEnter
    /\ sem' = sem - 1
    /\ held' = [held EXCEPT ![a] = 1]
    /\ snap' = [snap EXCEPT ![a] = lastSaved]
    /\ pc' = [pc EXCEPT ![a] = "load_open"]
    /\ UNCHANGED <<mode, op, key, res, ok, data, file_mutex, write_lock, mutex,
                   file, handle, err, errBy, firstSet, wasFirst, committed,
                   expect, lastSaved, written, gone, expectAbsent, fresh>>

\* line 137: data = super().get_value(key)
GetLookup(a) ==
    /\ pc[a] = "get_lookup"
    /\ res' = [res EXCEPT ![a] = get_value(data[Inst(a)], key[a])]
    /\ pc' = [pc EXCEPT ![a] = "get_release"]
    /\ UNCHANGED <<mode, op, key, ok, held, data, file_mutex, write_lock, mutex,
                   sem, file, handle, err, errBy, hist>>

\* lines 140-141: ReleaseSemaphore(self.read_semaphore, 1); return data
ReleaseReadSlot(a) ==
    /\ pc[a] = "get_release"
    /\ IF CanRelease(sem)
       THEN /\ sem' = sem + 1
            /\ held' = [held EXCEPT ![a] = 0]
            /\ pc' = [pc EXCEPT ![a] = "done"]
            /\ UNCHANGED <<err, errBy>>
       ELSE /\ Raise(a, "too_many_posts", "none")
            /\ UNCHANGED <<sem, held>>
    /\ UNCHANGED <<mode, op, key, res, ok, data, file_mutex, write_lock, mutex,
                   file, handle, hist>>

\* ------------------------------------------------------- DataBase.delete
\* a caller invokes delete(k): the method SynchronizedDataBase inherits
\* (lines 36-41; __main__ line 181 calls it on a SynchronizedDataBase)
CallDelete(a, k) ==
    /\ pc[a] = "idle"
    /\ pc' = [pc EXCEPT ![a] = "del_body"]
    /\ op' = [op EXCEPT ![a] = "delete"]
    /\ key' = [key EXCEPT ![a] = k]
    /\ UNCHANGED <<mode, res, ok, held, data, file_mutex, write_lock, mutex, sem,
                   file, handle, err, errBy, hist>>

\* lines 40-41: pop the key from self.data and return its value; no gate is
\* taken and nothing is saved
Delete(a) ==
    /\ pc[a] = "del_body"
    /\ res' = [res EXCEPT ![a] = delete_result(data[Inst(a)], key[a])]
    /\ data' = [data EXCEPT ![Inst(a)] = delete(data[Inst(a)], key[a])]
    /\ gone' = [gone EXCEPT ![key[a]] =
                    \A b \in Actors : (op[b] = "set" /\ key[b] = key[a])
                                           => pc[b] \in {"done", "failed"}]
    /\ fresh' = [fresh EXCEPT ![Inst(a)] = "no"]
    /\ pc' = [pc EXCEPT ![a] = "done"]
    /\ UNCHANGED <<mode, op, key, ok, held, file_mutex, write_lock, mutex, sem,
                   file, handle, err, errBy, firstSet, wasFirst, committed,
                   expect, lastSaved, snap, written, expectAbsent>>

\* ------------------------------------------------ value_delete (module level)
\* a caller invokes value_delete(db, k): lines 144-164 are dedented out of the
\* class, so it is a function of the module, not a method of the store.  Its
\* lines 149-153 are the writer's acquisitions (AcquireWriteLock, AcquireMutex,
\* Drain).
CallValueDelete(a, k) ==
    /\ pc[a] = "idle"
    /\ pc' = [pc EXCEPT ![a] = "wr_lock"]
    /\ op' = [op EXCEPT ![a] = "value_delete"]
    /\ key' = [key EXCEPT ![a] = k]
    /\ UNCHANGED <<mode, res, ok, held, data, file_mutex, write_lock, mutex, sem,
                   file, handle, err, errBy, hist>>

\* line 156: super() outside a class body raises RuntimeError ("__class__ cell
\* not found"); lines 157-164 never run
ValueDeleteSuper(a) ==
    /\ pc[a] = "wr_body"
    /\ op[a] = "value_delete"
    /\ Raise(a, "super", "none")
    /\ UNCHANGED <<mode, op, key, res, ok, held, data, file_mutex, write_lock,
                   mutex, sem, file, handle, hist>>

\* ------------------------------------------------------------ specification
Load(a) == LoadOpen(a) \/ LoadCreate(a) \/ LoadRead(a)
Save(a) == SaveOpen(a) \/ SaveWrite(a)
ValueSet(a) ==
    \/ AcquireWriteLock(a) \/ AcquireMutex(a) \/ Drain(a) \/ SetMutate(a)
    \/ ReleaseSlots(a) \/ ReleaseMutex(a) \/ ReleaseWriteLock(a)
ValueGet(a) ==
    \/ AcquireReadSlot(a) \/ GetLookup(a) \/ ReleaseReadSlot(a)

Next ==
    \E a \in Actors :
        \/ \E k \in Keys : CallSet(a, k)
        \/ \E k \in Keys : CallGet(a, k)
        \/ Load(a)
        \/ Save(a)
        \/ ValueSet(a)
        \/ ValueGet(a)

Spec == Init /\ [][Next]_vars

\* the same callers, who may also call delete and value_delete
NextDel ==
    \/ Next
    \/ \E a \in Actors :
        \/ \E k \in Keys : CallDelete(a, k)
        \/ \E k \in Keys : CallValueDelete(a, k)
        \/ Delete(a)
        \/ ValueDeleteSuper(a)

SpecDel == Init /\ [][NextDel]_vars

\* ------------------------------------------------ callers that call again
\* the reader's loop goes round (ThreadTest.py lines 12-15): the next value_get
GetAgain(a) ==
    /\ pc[a] = "done"
    /\ op[a] = "get"
    /\ pc' = [pc EXCEPT ![a] = "idle"]
    /\ op' = [op EXCEPT ![a] = "none"]
    /\ res' = [res EXCEPT ![a] = None]
    /\ expect' = [expect EXCEPT ![a] = None]
    /\ expectAbsent' = [expectAbsent EXCEPT ![a] = FALSE]
    /\ snap' = [snap EXCEPT ![a] = EmptyDict]
    /\ UNCHANGED <<mode, key, ok, held, data, file_mutex, write_lock, mutex, sem,
                   file, handle, err, errBy, firstSet, wasFirst, committed,
                   lastSaved, written, gone, fresh>>

\* any step of actor a in the program whose readers call again and again
ProgramStep(a) ==
    \/ \E k \in Keys : CallSet(a, k)
    \/ \E k \in Keys : CallGet(a, k)
    \/ Load(a)
    \/ Save(a)
    \/ ValueSet(a)
    \/ ValueGet(a)
    \/ GetAgain(a)

\* One schedule of that program, in threads mode on an existing snapshot:
\* actor 1 is the writer of ThreadTest.py, the others are its readers.  The
\* scheduler runs the writer up to its drain loop and then never picks it
\* while a unit is free, and lets a reader release its unit only while every
\* unit is taken.
Writer == 1
Readers == Actors \ {Writer}

InitStarve ==
    /\ Init
    /\ mode = "threads"

\* the writer's steps up to the drain loop (lines 111-113)
WriterApproach ==
    \/ \E k \in Keys : CallSet(Writer, k)
    \/ AcquireWriteLock(Writer)
    \/ AcquireMutex(Writer)

\* a reader's steps; line 140 is scheduled only when no unit is free
ReaderTurn(r) ==
    \/ \E k \in Keys : CallGet(r, k)
    \/ AcquireReadSlot(r)
    \/ LoadOpen(r)
    \/ GetLookup(r)
    \/ (sem = 0 /\ ReleaseReadSlot(r))
    \/ GetAgain(r)

NextStarve == WriterApproach \/ \E r \in Readers : ReaderTurn(r)

SpecStarve ==
    /\ InitStarve
    /\ [][NextStarve]_vars
    /\ WF_vars(WriterApproach)
    /\ \A r \in Readers : SF_vars(ReaderTurn(r))

\* ------------------------------------------- a snapshot that does not unpickle
\* The snapshot file has been cut to zero bytes (what CREATE_ALWAYS of line 62
\* leaves when the writer dies before line 64) after value_set(1, 1) returned
\* True on instance 1.  threads: instance 1 is the one instance; processes:
\* process 1 has built its instance, the others are about to build theirs.
StoredBefore == (1 :> 1)
Built(a) == mode = "threads" \/ a = 1

InitCorrupt ==
    /\ mode \in {"threads", "processes"}
    /\ pc = [a \in Actors |-> IF Built(a) THEN "idle" ELSE "load_open"]
    /\ op = [a \in Actors |-> IF Built(a) THEN "none" ELSE "new"]
    /\ key = [a \in Actors |-> 1]
    /\ res = [a \in Actors |-> None]
    /\ ok = [a \in Actors |-> FALSE]
    /\ held = [a \in Actors |-> 0]
    /\ data = [i \in Actors |-> IF i = 1 THEN StoredBefore ELSE EmptyDict]
    /\ file_mutex = [i \in Actors |-> Free]
    /\ write_lock = Free
    /\ mutex = Free
    /\ sem = read_limit
    /\ file = Truncated
    /\ handle = Free
    /\ err = [a \in Actors |-> "none"]
    /\ errBy = [a \in Actors |-> "none"]
    /\ firstSet = [k \in Keys |-> IF k = 1 THEN 1 ELSE None]
    /\ wasFirst = [a \in Actors |-> FALSE]
    /\ committed = [k \in Keys |-> IF k = 1 THEN 1 ELSE None]
    /\ expect = [a \in Actors |-> None]
    /\ lastSaved = StoredBefore
    /\ snap = [a \in Actors |-> EmptyDict]
    /\ written = [k \in Keys |-> IF k = 1 THEN {1} ELSE {}]
    /\ gone = [k \in Keys |-> FALSE]
    /\ expectAbsent = [a \in Actors |-> FALSE]
    /\ fresh = [i \in Actors |-> "no"]

SpecCorrupt == InitCorrupt /\ [][Next]_vars

\* ------------------------------------------------------------------ claims
\* a holds a read slot inside value_get (lines 134-139)
Reading(a) ==
    /\ op[a] = "get"
    /\ pc[a] \in {"load_open", "load_create", "load_read", "get_lookup", "get_release"}

\* a is mutating self.data or saving inside value_set (lines 118-119)
Writing(a) == op[a] = "set" /\ pc[a] \in {"wr_body", "save_open", "save_write"}

\* a is between acquiring and releasing write_lock inside value_set (lines 112-125)
InWriteGate(a) ==
    /\ op[a] = "set"
    /\ pc[a] \in {"wr_mutex", "wr_drain", "wr_body", "save_open", "save_write",
                  "wr_release", "wr_unmutex", "wr_unlock"}

RECURSIVE SumHeld(_)
SumHeld(S) == IF S = {} THEN 0
              ELSE LET a == CHOOSE x \in S : TRUE IN held[a] + SumHeld(S \ {a})

\* C1: no actor mutates the store or saves inside value_set while another
\* actor is between acquiring and releasing its read slot inside value_get.
C1_WriterReaderExclusion ==
    \A a, b \in Actors : ~(Writing(a) /\ Reading(b))

\* a writer is in the middle of its save while a reader waits for a slot
C1_Witness ==
    \E a, b \in Actors : pc[a] = "save_write" /\ op[a] = "set" /\ pc[b] = "get_sem"

\* C2: at most one actor at a time is between acquiring and releasing
\* write_lock in value_set.
C2_WriterWriterExclusion ==
    Cardinality({a \in Actors : InWriteGate(a)}) <= 1

\* one writer is draining while another waits for write_lock
C2_Witness ==
    \E a, b \in Actors : pc[a] = "wr_drain" /\ op[a] = "set" /\ pc[b] = "wr_lock"

\* C3: at most read_limit actors hold a read slot in value_get, the semaphore
\* count stays in 0..read_limit (count plus units held is read_limit), and no
\* ReleaseSemaphore is ever refused for exceeding the maximum.
C3_ReadCapacity ==
    /\ Cardinality({a \in Actors : Reading(a)}) <= read_limit
    /\ sem \in 0..read_limit
    /\ sem + SumHeld(Actors) = read_limit
    /\ \A a \in Actors : err[a] # "too_many_posts"

\* read_limit readers hold a slot and one more waits at the semaphore
C3_Witness ==
    /\ Cardinality({a \in Actors : Reading(a)}) = read_limit
    /\ sem = 0
    /\ \E a \in Actors : pc[a] = "get_sem"

\* no value_set is in progress
NoWriterActive == \A a \in Actors : op[a] = "set" => pc[a] \in {"done", "failed"}

\* C4: the set that executes first on a key returns True, every later set on
\* that key returns False, and once the writers have finished the snapshot
\* holds the first set's value for the key.
C4_FirstWriterWins ==
    /\ \A a \in Actors :
          (op[a] = "set" /\ pc[a] \in {"save_open", "save_write", "wr_release",
                                       "wr_unmutex", "wr_unlock", "done"})
              => (ok[a] <=> wasFirst[a])
    /\ NoWriterActive =>
          \A k \in Keys : firstSet[k] # None => get_value(Decoded, k) = firstSet[k]

\* C5: a get(k) invoked after set(k, v) returned True returns v.
C5_SetsAreDurable ==
    \A a \in Actors :
        (op[a] = "get" /\ pc[a] = "done" /\ expect[a] # None) => res[a] = expect[a]

\* C6: a value_get(k) invoked after delete(k) returned, with no set_value on k
\* since, returns None.
C6_DeleteThenGetAbsent ==
    \A a \in Actors :
        (op[a] = "get" /\ pc[a] = "done" /\ expectAbsent[a] /\ gone[key[a]])
            => res[a] = None

\* C7: the value value_get(k) returns is the value of k in the snapshot of the
\* most recently completed save when the reader took its slot, and it is None
\* or a value some set_value stored under k.
C7_ReadsAtomicAndFresh ==
    \A a \in Actors :
        (op[a] = "get" /\ pc[a] \in {"get_release", "done"}) =>
            /\ res[a] = get_value(snap[a], key[a])
            /\ res[a] \in written[key[a]] \cup {None}

\* a reader has looked up a stored value while a writer waits in its drain
C7_Witness ==
    \E a, b \in Actors :
        /\ op[a] = "get" /\ pc[a] = "get_release" /\ res[a] # None
        /\ op[b] = "set" /\ pc[b] = "wr_drain"

\* a is inside load's try block (lines 75-80), b has the file open for writing
InLoad(a) == pc[a] \in {"load_create", "load_read"}
MidSave(b) == pc[b] = "save_write"

\* C8: no actor executes load while another actor is in the middle of save.
C8_NoLoadOverlapsSave ==
    \A a, b \in Actors : a # b => ~(InLoad(a) /\ MidSave(b))

\* C9: a value_set or value_get that raised has released every gate it took.
C9_NoLeakedGates ==
    \A a \in Actors :
        (pc[a] = "failed" /\ op[a] \in {"set", "get"}) =>
            /\ held[a] = 0
            /\ write_lock # a
            /\ mutex # a

\* C10: no value_get raises because another value_get has the snapshot file
\* open at that moment.
C10_ReadersDoNotFailEachOther ==
    \A a \in Actors :
        ~(pc[a] = "failed" /\ op[a] = "get" /\ err[a] = "sharing" /\ errBy[a] = "get")

\* C11: there is an execution, weakly fair to every actor, in which a writer
\* that holds write_lock never finishes its drain: every behaviour of the
\* schedule SpecStarve is weakly fair to every actor's steps in the program,
\* and in it the writer stays in its drain loop for ever.
C11_WriterCanStarve ==
    /\ \A a \in Actors : WF_vars(ProgramStep(a))
    /\ <>[](op[Writer] = "set" /\ pc[Writer] = "wr_drain" /\ write_lock = Writer
            /\ held[Writer] < DrainCount)

\* the writer waits in its drain with no unit free while readers hold them all
C11_Witness ==
    /\ op[Writer] = "set" /\ pc[Writer] = "wr_drain" /\ sem = 0
    /\ \A r \in Readers : Reading(r)

C13_CorruptSnapshotIsAnError ==
    /\ [][\A a \in Actors :
            (pc[a] = "load_read" /\ ~file.pickled /\ pc'[a] # pc[a])
                => /\ pc'[a] = "failed"
                   /\ err'[a] = "unpickle"
                   /\ data' = data
                   /\ file' = file]_vars
    /\ [](file.pickled => /\ Decoded # EmptyDict
                          /\ \A k \in DOMAIN StoredBefore :
                                get_value(Decoded, k) = StoredBefore[k])

\* a load failed on the cut file, and a value_set on a store that held an
\* entry has saved since
C13_Witness ==
    \E a, b \in Actors :
        /\ err[a] = "unpickle"
        /\ op[b] = "set" /\ pc[b] = "done" /\ file.pickled
        /\ data[Inst(b)] # EmptyDict

\* C14: every delete on the synchronized store runs the writer's protocol to
\* its end (value_delete never raises before it removes and saves), and no
\* step of a public operation changes the in-memory store unless the actor
\* taking it holds write_lock and all read_limit units of the semaphore.
C14_DeleteFollowsWriterProtocol ==
    /\ [](\A a \in Actors : err[a] # "super")
    /\ [][\A a \in Actors :
            (pc[a] \in {"wr_body", "del_body"} /\ pc'[a] # pc[a] /\ data' # data)
                => (write_lock = a /\ held[a] = read_limit)]_vars

\* no gate is held: both locks are free and every unit of the semaphore is back
NoGateHeld == write_lock = Free /\ mutex = Free /\ sem = read_limit

\* C15: in threads mode, whenever no gate is held, the snapshot file decodes
\* to exactly the in-memory mapping of the store (an absent file decodes to
\* the empty mapping), after any calls of set, get and delete.
C15_SnapshotEqualsStoreAtQuiescence ==
    (mode = "threads" /\ NoGateHeld) => Decoded = data[1]

\* no call has raised so far
NoFailure == \A a \in Actors : pc[a] # "failed"

\* actor a is inside a call (or inside its constructor)
InCall(a) == pc[a] \notin {"idle", "done", "failed"}

\* a step of a call a is inside
CallStep(a) == Load(a) \/ Save(a) \/ ValueSet(a) \/ ValueGet(a)

\* C16: while no call has failed, whenever some actor is inside a value_set or
\* value_get, some actor inside a call can take a step (they are never all
\* blocked on gates); and no two writers are in the drain loop each holding
\* some of the read slots.
C16_DeadlockFreedom ==
    NoFailure =>
        /\ (\E a \in Actors : InCall(a))
              => \E a \in Actors : InCall(a) /\ ENABLED CallStep(a)
        /\ \A a, b \in Actors :
              (a # b /\ pc[a] = "wr_drain" /\ pc[b] = "wr_drain")
                  => ~(held[a] > 0 /\ held[b] > 0)

\* a writer holds part of the slots and waits for the rest, a reader holds the
\* other slot, and a third actor is blocked on a gate
C16_Witness ==
    /\ NoFailure
    /\ \E a, b, c \in Actors :
          /\ pc[a] = "wr_drain" /\ held[a] > 0 /\ sem = 0
          /\ Reading(b)
          /\ c \notin {a, b} /\ InCall(c) /\ ~ENABLED CallStep(c)

\* C17: mutex is held only by the actor that holds write_lock; an actor that
\* reaches the wait for mutex never finds it taken; and a step that takes or
\* releases mutex changes nothing else but the position of the actor taking
\* it, so that leaving the steps on mutex out of every behaviour gives the
\* behaviours of the protocol with write_lock as the only write gate.
C17_SecondLockRedundant ==
    /\ [](\A a \in Actors : mutex = a => write_lock = a)
    /\ [](\A a \in Actors : pc[a] = "wr_mutex" => CanLock(mutex))
    /\ [][mutex' # mutex =>
            /\ UNCHANGED <<mode, op, key, res, ok, held, data, file_mutex,
                           write_lock, sem, file, handle, err, errBy, hist>>
            /\ \E a \in Actors :
                  \/ /\ pc[a] = "wr_mutex"
                     /\ pc' = [pc EXCEPT ![a] = "wr_drain"]
                  \/ /\ pc[a] = "wr_unmutex"
                     /\ pc' = [pc EXCEPT ![a] = "wr_unlock"]]_vars

\* one writer holds both locks while another waits for write_lock
C17_Witness ==
    \E a, b \in Actors :
        /\ a # b
        /\ mutex = a /\ write_lock = a /\ pc[a] = "wr_drain"
        /\ op[b] = "set" /\ pc[b] = "wr_lock"

\* a value_set or value_get of a has returned without raising
Returned(a) == pc[a] = "done" /\ op[a] \in {"set", "get"}

\* value_set has released its slots before it releases mutex and write_lock
SlotsBeforeLocks == \A a \in Actors : pc[a] \in {"wr_unmutex", "wr_unlock"} => held[a] = 0

\* C18: an actor whose value_set or value_get has returned holds no slot and
\* neither lock; the writer has given back all its slots before it releases
\* mutex and write_lock; and whenever no call is in progress the semaphore
\* count is read_limit and both locks are free.
C18_GatesRestored ==
    /\ \A a \in Actors : Returned(a) => (held[a] = 0 /\ write_lock # a /\ mutex # a)
    /\ SlotsBeforeLocks
    /\ (\A a \in Actors : ~InCall(a)) => NoGateHeld

=============================================================================
